---------------------------- MODULE Spec2Model ----------------------------
(***************************************************************************)
(* A model of the encrust crate: the DES block cipher of                   *)
(* src/block/des/cipher.rs, the earlier DES key schedule of                *)
(* src/block/des.rs and the ARC4 stream cipher of src/stream/arc4.rs.      *)
(*                                                                         *)
(* A u64 is a tuple of 64 bits, most significant bit first: TLC's integers *)
(* are 32 bits wide, so the words of the cipher cannot be TLC integers.    *)
(* Shifts, masks and comparisons are computed on these tuples the way the  *)
(* machine computes them on the word, bits shifted out of the word lost.   *)
(* A u8 is an integer in 0..255.                                           *)
(***************************************************************************)
EXTENDS Integers, Sequences, FiniteSets

VARIABLES
    overflow_checks, \* the build: TRUE = arithmetic overflow panics (debug)
    sbox_set,        \* which tables stand for the S of s_boxes.rs
    pc,              \* where the program is
    call,            \* the primitive called last, with its arguments
    ret,             \* what the last call returned, or the panic it raised
    master_key,      \* the master key given to Des::new
    round_keys,      \* Des.round_keys of cipher.rs
    precompressed_keys, \* the local array of Des::new (cipher.rs)
    twin_key,        \* a master key that differs from master_key in parity bits
    twin_round_keys, \* round_keys of the Des built from twin_key
    old_round_keys,  \* Des.round_keys of des.rs
    ops,             \* the encrypt / decrypt calls made so far, in order
    blocks,          \* the first input block, then what each call returned
    frame,           \* the locals of the encrypt / decrypt call under way
    cipher_key,      \* the key given to AllegedRc4::new for cipher
    cipher,          \* an AllegedRc4: [i, j, s]
    decipher_key,    \* the key given to AllegedRc4::new for decipher
    decipher,        \* a second AllegedRc4
    message,         \* the bytes first put in buf
    buf              \* the buffer apply_keystream works on

vars == <<overflow_checks, sbox_set, pc, call, ret, master_key, round_keys,
          precompressed_keys, twin_key, twin_round_keys, old_round_keys, ops,
          blocks, frame, cipher_key, cipher, decipher_key, decipher, message,
          buf>>

\* The variables of the Des of cipher.rs and of the schedules compared to it.
desVars == <<master_key, round_keys, precompressed_keys, twin_key,
             twin_round_keys, old_round_keys, ops, blocks, frame>>
\* The variables of the two AllegedRc4.
arcVars == <<cipher_key, cipher, decipher_key, decipher, message, buf>>

-----------------------------------------------------------------------------
(* Machine words.                                                          *)

\* The width of a u64.
W == 64

\* n copies of bit b.
Rep(b, n) == [i \in 1..n |-> b] \o <<>>

\* 0u64 and 1u64.
Zero64 == Rep(0, W)
One64 == Append(Rep(0, W - 1), 1)
\* u64::MAX
Max64 == Rep(1, W)

\* k >> s and k << s for a shift s < 64: bits shifted out are lost.
Shr(k, s) == Rep(0, s) \o SubSeq(k, 1, W - s)
Shl(k, s) == SubSeq(k, s + 1, W) \o Rep(0, s)

\* a & b, a | b, a ^ b.
BitAnd(a, b) == [i \in 1..W |-> a[i] * b[i]] \o <<>>
BitOr(a, b) == [i \in 1..W |-> IF a[i] + b[i] > 0 THEN 1 ELSE 0] \o <<>>
BitXor(a, b) == [i \in 1..W |-> (a[i] + b[i]) % 2] \o <<>>

\* a < b as unsigned 64-bit numbers: at the first bit where they differ, a
\* has 0 and b has 1.
Lt(a, b) == \E i \in 1..W : a[i] < b[i] /\ \A j \in 1..(i - 1) : a[j] = b[j]

\* (1u64 << n) - 1 for n in 0..64: the n low bits set.
LowMask(n) == Rep(0, W - n) \o Rep(1, n)

\* The u64 whose low bits are the tuple bits (at most 64 of them).
Word(bits) == Rep(0, W - Len(bits)) \o bits

\* The n low bits of the integer b, most significant first.
ByteBits(b, n) == [i \in 1..n |-> (b \div 2 ^ (n - i)) % 2] \o <<>>

RECURSIVE BitsVal(_)
\* The number a tuple of bits denotes (short tuples only).
BitsVal(bits) ==
    IF bits = <<>> THEN 0
    ELSE 2 * BitsVal(SubSeq(bits, 1, Len(bits) - 1)) + bits[Len(bits)]

RECURSIVE FromBytes(_)
\* The u64 written as its bytes, most significant first.
FromBytes(bytes) ==
    IF bytes = <<>> THEN <<>>
    ELSE ByteBits(Head(bytes), 8) \o FromBytes(Tail(bytes))

\* What a call returns: a value, or the panic that ended it.
Ok(v) == [ok |-> TRUE, val |-> v, msg |-> ""]
Panic(m) == [ok |-> FALSE, val |-> <<>>, msg |-> m]

-----------------------------------------------------------------------------
(* The permutation tables of src/block/des/permutation_tables.rs.          *)

\* The input permutation on a 64-bit block.
INITIAL_PERMUTATION ==
    << 58, 50, 42, 34, 26, 18, 10, 2,
       60, 52, 44, 36, 28, 20, 12, 4,
       62, 54, 46, 38, 30, 22, 14, 6,
       64, 56, 48, 40, 32, 24, 16, 8,
       57, 49, 41, 33, 25, 17, 9, 1,
       59, 51, 43, 35, 27, 19, 11, 3,
       61, 53, 45, 37, 29, 21, 13, 5,
       63, 55, 47, 39, 31, 23, 15, 7 >>

\* FINAL_PERMUTATION with its first two entries exchanged.
FINAL_PERMUTATION_Exchanged ==
    << 8, 40, 48, 16, 56, 24, 64, 32,
       39, 7, 47, 15, 55, 23, 63, 31,
       38, 6, 46, 14, 54, 22, 62, 30,
       37, 5, 45, 13, 53, 21, 61, 29,
       36, 4, 44, 12, 52, 20, 60, 28,
       35, 3, 43, 11, 51, 19, 59, 27,
       34, 2, 42, 10, 50, 18, 58, 26,
       33, 1, 41, 9, 49, 17, 57, 25 >>

\* Inverse of the INITIAL_PERMUTATION.
FINAL_PERMUTATION ==
    << 40, 8, 48, 16, 56, 24, 64, 32,
       39, 7, 47, 15, 55, 23, 63, 31,
       38, 6, 46, 14, 54, 22, 62, 30,
       37, 5, 45, 13, 53, 21, 61, 29,
       36, 4, 44, 12, 52, 20, 60, 28,
       35, 3, 43, 11, 51, 19, 59, 27,
       34, 2, 42, 10, 50, 18, 58, 26,
       33, 1, 41, 9, 49, 17, 57, 25 >>

\* PC_1 with its last entry, 4, mistyped as the parity position 8.
PC_1_Mistyped ==
    << 57, 49, 41, 33, 25, 17, 9,
       1, 58, 50, 42, 34, 26, 18,
       10, 2, 59, 51, 43, 35, 27,
       19, 11, 3, 60, 52, 44, 36,
       63, 55, 47, 39, 31, 23, 15,
       7, 62, 54, 46, 38, 30, 22,
       14, 6, 61, 53, 45, 37, 29,
       21, 13, 5, 28, 20, 12, 8 >>

\* Permutated Choice 1.
PC_1 ==
    << 57, 49, 41, 33, 25, 17, 9,
       1, 58, 50, 42, 34, 26, 18,
       10, 2, 59, 51, 43, 35, 27,
       19, 11, 3, 60, 52, 44, 36,
       63, 55, 47, 39, 31, 23, 15,
       7, 62, 54, 46, 38, 30, 22,
       14, 6, 61, 53, 45, 37, 29,
       21, 13, 5, 28, 20, 12, 4 >>

\* Key Compression Table.
PC_2 ==
    << 14, 17, 11, 24, 1, 5, 3, 28,
       15, 6, 21, 10, 23, 19, 12, 4,
       26, 8, 16, 7, 27, 20, 13, 2,
       41, 52, 31, 37, 47, 55, 30, 40,
       51, 45, 33, 48, 44, 49, 39, 56,
       34, 53, 46, 42, 50, 36, 29, 32 >>

\* The expansion table of the round function: 32 bits to 48. The table is
\* imported by cipher.rs; its file is not part of the sources at hand, and
\* the table is the standard's.
E ==
    << 32, 1, 2, 3, 4, 5,
       4, 5, 6, 7, 8, 9,
       8, 9, 10, 11, 12, 13,
       12, 13, 14, 15, 16, 17,
       16, 17, 18, 19, 20, 21,
       20, 21, 22, 23, 24, 25,
       24, 25, 26, 27, 28, 29,
       28, 29, 30, 31, 32, 1 >>

\* The output permutation of the round function, 32 bits to 32 (as E).
P ==
    << 16, 7, 20, 21, 29, 12, 28, 17,
       1, 15, 23, 26, 5, 18, 31, 10,
       2, 8, 24, 14, 32, 27, 3, 9,
       19, 13, 30, 6, 22, 11, 4, 25 >>

\* The standard's eight substitution boxes, row-major, 64 entries each
\* (s_boxes.rs is not part of the sources at hand).
StandardSBoxes ==
    << << 14, 4, 13, 1, 2, 15, 11, 8, 3, 10, 6, 12, 5, 9, 0, 7,
          0, 15, 7, 4, 14, 2, 13, 1, 10, 6, 12, 11, 9, 5, 3, 8,
          4, 1, 14, 8, 13, 6, 2, 11, 15, 12, 9, 7, 3, 10, 5, 0,
          15, 12, 8, 2, 4, 9, 1, 7, 5, 11, 3, 14, 10, 0, 6, 13 >>,
       << 15, 1, 8, 14, 6, 11, 3, 4, 9, 7, 2, 13, 12, 0, 5, 10,
          3, 13, 4, 7, 15, 2, 8, 14, 12, 0, 1, 10, 6, 9, 11, 5,
          0, 14, 7, 11, 10, 4, 13, 1, 5, 8, 12, 6, 9, 3, 2, 15,
          13, 8, 10, 1, 3, 15, 4, 2, 11, 6, 7, 12, 0, 5, 14, 9 >>,
       << 10, 0, 9, 14, 6, 3, 15, 5, 1, 13, 12, 7, 11, 4, 2, 8,
          13, 7, 0, 9, 3, 4, 6, 10, 2, 8, 5, 14, 12, 11, 15, 1,
          13, 6, 4, 9, 8, 15, 3, 0, 11, 1, 2, 12, 5, 10, 14, 7,
          1, 10, 13, 0, 6, 9, 8, 7, 4, 15, 14, 3, 11, 5, 2, 12 >>,
       << 7, 13, 14, 3, 0, 6, 9, 10, 1, 2, 8, 5, 11, 12, 4, 15,
          13, 8, 11, 5, 6, 15, 0, 3, 4, 7, 2, 12, 1, 10, 14, 9,
          10, 6, 9, 0, 12, 11, 7, 13, 15, 1, 3, 14, 5, 2, 8, 4,
          3, 15, 0, 6, 10, 1, 13, 8, 9, 4, 5, 11, 12, 7, 2, 14 >>,
       << 2, 12, 4, 1, 7, 10, 11, 6, 8, 5, 3, 15, 13, 0, 14, 9,
          14, 11, 2, 12, 4, 7, 13, 1, 5, 0, 15, 10, 3, 9, 8, 6,
          4, 2, 1, 11, 10, 13, 7, 8, 15, 9, 12, 5, 6, 3, 0, 14,
          11, 8, 12, 7, 1, 14, 2, 13, 6, 15, 0, 9, 10, 4, 5, 3 >>,
       << 12, 1, 10, 15, 9, 2, 6, 8, 0, 13, 3, 4, 14, 7, 5, 11,
          10, 15, 4, 2, 7, 12, 9, 5, 6, 1, 13, 14, 0, 11, 3, 8,
          9, 14, 15, 5, 2, 8, 12, 3, 7, 0, 4, 10, 1, 13, 11, 6,
          4, 3, 2, 12, 9, 5, 15, 10, 11, 14, 1, 7, 6, 0, 8, 13 >>,
       << 4, 11, 2, 14, 15, 0, 8, 13, 3, 12, 9, 7, 5, 10, 6, 1,
          13, 0, 11, 7, 4, 9, 1, 10, 14, 3, 5, 12, 2, 15, 8, 6,
          1, 4, 11, 13, 12, 3, 7, 14, 10, 15, 6, 8, 0, 5, 9, 2,
          6, 11, 13, 8, 1, 4, 10, 7, 9, 5, 0, 15, 14, 2, 3, 12 >>,
       << 13, 2, 8, 4, 6, 15, 11, 1, 10, 9, 3, 14, 5, 0, 12, 7,
          1, 15, 13, 8, 10, 3, 7, 4, 12, 5, 6, 11, 0, 14, 9, 2,
          7, 11, 4, 1, 9, 12, 14, 2, 0, 6, 10, 13, 15, 3, 5, 8,
          2, 1, 14, 7, 4, 10, 8, 13, 15, 12, 9, 0, 3, 5, 6, 11 >> >>

\* Another filling of the eight boxes with 4-bit values, standing for any
\* table s_boxes.rs might hold: entry i of box b is (7 * i + 3 * b) mod 16.
AffineSBoxes ==
    [b \in 1..8 |-> [i \in 1..64 |-> (7 * (i - 1) + 3 * b) % 16]]

\* S of s_boxes.rs: the eight boxes in use.
S == IF sbox_set = "standard" THEN StandardSBoxes ELSE AffineSBoxes

-----------------------------------------------------------------------------
(* src/block/des/cipher.rs                                                 *)

\* 0b00000000_00000000_00000000_00000000_00001111_11111111_11111111_11111111
MASK_RIGHT_28_BIT == LowMask(28)
\* 0b00000000_11111111_11111111_11111111_11110000_00000000_00000000_00000000
MASK_LEFT_28_BIT == BitXor(LowMask(56), MASK_RIGHT_28_BIT)
\* 0b00000000_00000000_00000000_00000000_11111111_11111111_11111111_11111111
MASK_RIGHT_32_BIT == LowMask(32)
\* 0b11111111_11111111_11111111_11111111_00000000_00000000_00000000_00000000
MASK_LEFT_32_BIT == BitXor(Max64, MASK_RIGHT_32_BIT)

\* (k >> shift) & 1, for shift < 64: the bit of k that the shift brings to
\* the lowest place.
ShrAnd1(k, shift) == k[W - shift]

\* The register `result` after (result << 1) | bit, line 113 of permutate
\* and lines 182 and 185 of merge_halves, has been done for each bit of
\* bits in turn: every bit enters at the low end, and what leaves the 64
\* bits at the high end is lost.
PushAll(result, bits) ==
    SubSeq(result \o bits, Len(bits) + 1, Len(bits) + W)

\* The shift of permutate, line 111: (k_size - bit_pos) as u64, a u8
\* subtraction. It panics on underflow when the build checks overflow and
\* wraps modulo 2^8 when it does not.
PermShift(k_size, bit_pos) ==
    IF k_size >= bit_pos THEN Ok(k_size - bit_pos)
    ELSE IF overflow_checks THEN Panic("attempt to subtract with overflow")
    ELSE Ok(k_size - bit_pos + 256)

\* PermBit with the shift taken from the 64-bit word, not from k_size.
PermBitOfWord(k, k_size, bit_pos) ==
    Ok(ShrAnd1(k, (W - bit_pos) % W))

\* Lines 111-112 of permutate: the input bit that bit_pos selects. A shift
\* of 64 or more panics when the build checks overflow, and is taken modulo
\* 64 when it does not.
PermBit(k, k_size, bit_pos) ==
    LET shift == PermShift(k_size, bit_pos)
    IN  IF ~shift.ok THEN shift
        ELSE IF shift.val >= W /\ overflow_checks
        THEN Panic("attempt to shift right with overflow")
        ELSE Ok(ShrAnd1(k, shift.val % W))

\* The loop of permutate, lines 107-116: the first entry that panics ends
\* the call.
PermLoop(k, permutation_vec, k_size) ==
    LET n == Len(permutation_vec)
        picked == [i \in 1..n |-> PermBit(k, k_size, permutation_vec[i])]
                      \o <<>>
        failed == {i \in 1..n : ~picked[i].ok}
    IN  IF failed # {}
        THEN picked[CHOOSE i \in failed : \A j \in failed : i <= j]
        ELSE Ok(PushAll(Zero64, [i \in 1..n |-> picked[i].val] \o <<>>))

\* PermTooWide with the comparison off by one: k may equal 1 << k_size.
PermTooWideLax(k, k_size) == k_size < W /\ Lt(Shl(One64, k_size), k)

\* The width check of permutate, lines 103-105: TRUE when the assertion
\* fails.
PermTooWide(k, k_size) == k_size < W /\ ~Lt(k, Shl(One64, k_size))

\* permutate(k, permutation_vec, k_size)
permutate(k, permutation_vec, k_size) ==
    IF PermTooWide(k, k_size) THEN Panic("k is bigger than declared k_size")
    ELSE PermLoop(k, permutation_vec, k_size)

\* RotateOnce without the mask that keeps the value in 28 bits.
RotateOnceUnmasked(result) ==
    BitOr(Shl(result, 1), BitAnd(Shr(result, 27), One64))

\* One turn of the loop of rotate_left, lines 139-142.
RotateOnce(result) ==
    LET leading_bit == BitAnd(Shr(result, 27), One64)
        shifted == BitAnd(Shl(result, 1), MASK_RIGHT_28_BIT)
    IN  BitOr(shifted, leading_bit)

RECURSIVE RotateTimes(_, _)
RotateTimes(k, n) == IF n = 0 THEN k ELSE RotateOnce(RotateTimes(k, n - 1))

\* rotate_left(k, n): rotates the 28-bit value k left n times.
rotate_left(k, n) ==
    IF ~Lt(k, Shl(One64, 28)) THEN Panic("key must fit in 28 bits")
    ELSE Ok(RotateTimes(k, n))

\* MergeLoop with the shift one too far: half >> (half_size - i).
MergeLoopOffByOne(merged, half, half_size) ==
    PushAll(merged,
            [n \in 1..half_size |-> ShrAnd1(half, half_size - (n - 1))]
                \o <<>>)

\* A loop of merge_halves, lines 181-183 and 184-186: for i in 0..half_size
\* the bit (half >> (half_size - i - 1)) & 1 is pushed to merged.
MergeLoop(merged, half, half_size) ==
    PushAll(merged,
            [n \in 1..half_size |-> ShrAnd1(half, half_size - (n - 1) - 1)]
                \o <<>>)

\* merge_halves(left, right, half_size)
merge_halves(left, right, half_size) ==
    IF half_size > 32 THEN Panic("half_size cannot be bigger than 32 bits")
    ELSE LET limit == Shl(One64, half_size)
         IN  IF ~(Lt(left, limit) /\ Lt(right, limit))
             THEN Panic("left or right half do not fit into half_size bits")
             ELSE Ok(MergeLoop(MergeLoop(Zero64, left, half_size),
                               right, half_size))

\* Rotations with round 15 left out of the rounds that rotate by one.
RotationsLastByTwo(r) == IF r \in {0, 1, 8} THEN 1 ELSE 2

\* Rotations with every round rotating by two.
RotationsUniform(r) == 2

\* The number of rotations of round r, line 122.
Rotations(r) == IF r \in {0, 1, 8, 15} THEN 1 ELSE 2

\* rotate_key(k, r): r is the 0-based round.
rotate_key(k, r) ==
    IF ~(r < 16) THEN Panic("max round is 15 (counting from round0)")
    ELSE LET left == rotate_left(Shr(BitAnd(k, MASK_LEFT_28_BIT), 28),
                                 Rotations(r))
             right == rotate_left(BitAnd(k, MASK_RIGHT_28_BIT), Rotations(r))
         IN  IF ~left.ok THEN left
             ELSE IF ~right.ok THEN right
             ELSE merge_halves(left.val, right.val, 28)

RECURSIVE KeyRotation(_, _)
\* The key rotation step of Des::new, lines 26-29: the first n entries of
\* precompressed_keys, the closure having been called for i = 0 .. n-1 on
\* the state key_56_bit that it carries from call to call.
KeyRotation(key_56_bit, n) ==
    IF n = 0 THEN Ok(<<>>)
    ELSE LET prev == KeyRotation(key_56_bit, n - 1)
         IN  IF ~prev.ok THEN prev
             ELSE LET carried == IF n = 1 THEN key_56_bit ELSE prev.val[n - 1]
                      rotated == rotate_key(carried, n - 1)
                  IN  IF ~rotated.ok THEN rotated
                      ELSE Ok(Append(prev.val, rotated.val))

RECURSIVE Compress(_, _)
\* The PC-2 step of Des::new, line 32: the first n round keys.
Compress(precompressed, n) ==
    IF n = 0 THEN Ok(<<>>)
    ELSE LET prev == Compress(precompressed, n - 1)
             key == permutate(precompressed[n], PC_2, 56)
         IN  IF ~prev.ok THEN prev
             ELSE IF ~key.ok THEN key
             ELSE Ok(Append(prev.val, key.val))

\* A Des that was not built: the panic of Des::new.
NoDes(m) ==
    [ok |-> FALSE, msg |-> m, key_56_bit |-> <<>>,
     precompressed_keys |-> <<>>, round_keys |-> <<>>]

\* Des::new(k): the key scheduling. Beside round_keys the record keeps the
\* locals of the call: the PC-1 output and precompressed_keys.
DesNew(k) ==
    LET key_56_bit == permutate(k, PC_1, 64)
    IN  IF ~key_56_bit.ok THEN NoDes(key_56_bit.msg)
        ELSE LET pre == KeyRotation(key_56_bit.val, 16)
             IN  IF ~pre.ok THEN NoDes(pre.msg)
                 ELSE LET keys == Compress(pre.val, 16)
                      IN  IF ~keys.ok THEN NoDes(keys.msg)
                          ELSE [ok |-> TRUE, msg |-> "",
                                key_56_bit |-> key_56_bit.val,
                                precompressed_keys |-> pre.val,
                                round_keys |-> keys.val]

\* A small number as a u64.
U64(n) == Word(ByteBits(n, 8))

\* (x >> s) & (2^n - 1) as a number, for small n: the n bits of x above its
\* s lowest.
Field(x, s, n) == BitsVal(SubSeq(x, W - s - n + 1, W - s))

\* split_6bit_chunks(block): chunk i, for i in 0..7, a number below 64.
Chunk6(block, i) == Field(block, 48 - (i + 1) * 6, 6)

\* substitute(chunk, s_box) for a chunk below 64; the shifts and masks are
\* those of the code, on a number: row = ((chunk >> 4) & 0b10) | (chunk & 1),
\* col = (chunk & 0b11111) >> 1. The box is indexed from 0 in the code.
substitute(chunk, s_box) ==
    LET row == 2 * ((chunk \div 32) % 2) + (chunk % 2)
        col == (chunk % 32) \div 2
    IN  s_box[16 * row + col + 1]

RECURSIVE Merge4(_, _)
\* merge_4bit_chunks after the first n chunks.
Merge4(chunks, n) ==
    IF n = 0 THEN Zero64
    ELSE BitOr(Shl(Merge4(chunks, n - 1), 4), U64(chunks[n]))

\* apply_f(right, round_key): the round function.
apply_f(right, round_key) ==
    LET expanded == permutate(right, E, 32)
    IN  IF ~expanded.ok THEN expanded
        ELSE LET keyed == BitXor(expanded.val, round_key)
                 chunks == [i \in 1..8 |->
                               substitute(Chunk6(keyed, i - 1), S[i])]
                 merged_32bit == Merge4(chunks, 8)
             IN  permutate(merged_32bit, P, 32)

\* The halves of a block, or the panic that ended the rounds.
Halves(l, r) == [ok |-> TRUE, msg |-> "", left |-> l, right |-> r]
NoHalves(m) == [ok |-> FALSE, msg |-> m, left |-> <<>>, right |-> <<>>]

\* The body of the round loops, lines 46 and 65:
\* (left, right) = (right, left ^ apply_f(right, round_key)).
Twist(left, right, round_key) ==
    LET f == apply_f(right, round_key)
    IN  IF ~f.ok THEN NoHalves(f.msg)
        ELSE Halves(right, BitXor(left, f.val))

\* The swap after the last round, lines 49 and 68:
\* (left, right) = (right, left).
FinalSwap(h) == Halves(h.right, h.left)

\* Lines 39-42 of encrypt and 58-61 of decrypt: the initial permutation of
\* the block and its split into halves.
SplitBlock(block) ==
    LET ip_block == permutate(block, INITIAL_PERMUTATION, 64)
    IN  IF ~ip_block.ok THEN NoHalves(ip_block.msg)
        ELSE Halves(Shr(BitAnd(ip_block.val, MASK_LEFT_32_BIT), 32),
                    BitAnd(ip_block.val, MASK_RIGHT_32_BIT))

\* Lines 49-53 of encrypt and 68-72 of decrypt: the final swap, the merge
\* and the final permutation.
JoinHalves(h) ==
    LET swapped == FinalSwap(h)
        merged == merge_halves(swapped.left, swapped.right, 32)
    IN  IF ~merged.ok THEN merged
        ELSE permutate(merged.val, FINAL_PERMUTATION, 64)

\* The round key of turn n of the loop of encrypt, for i in 0..16 (line 45):
\* round_keys[i], round_keys indexed from 1 here.
EncryptKey(keys, n) == keys[n + 1]

\* DecryptKey walking the round keys forward, as encrypt does.
DecryptKeyForward(keys, n) == keys[n + 1]

\* The round key of turn n (counted from 0) of the loop of decrypt, for i
\* in (0..=15).rev() (line 64): round_keys[15 - n].
DecryptKey(keys, n) == keys[(15 - n) + 1]

-----------------------------------------------------------------------------
(* src/block/des.rs: the earlier key schedule. Its masks, rotate_left and  *)
(* the merge inside rotate_key read as those of cipher.rs; its permutate   *)
(* takes no width.                                                         *)

\* permutate(k, permutation_vec) of des.rs, lines 92-102: the shift is
\* (64 - bit_pos) whatever the width of k.
old_permutate(k, permutation_vec) ==
    LET n == Len(permutation_vec)
        picked == [i \in 1..n |-> PermBit(k, 64, permutation_vec[i])] \o <<>>
        failed == {i \in 1..n : ~picked[i].ok}
    IN  IF failed # {}
        THEN picked[CHOOSE i \in failed : \A j \in failed : i <= j]
        ELSE Ok(PushAll(Zero64, [i \in 1..n |-> picked[i].val] \o <<>>))

\* rotate_left_once(k) of des.rs, lines 135-140.
rotate_left_once(x) ==
    LET leading_bit == BitAnd(Shr(x, 27), One64)
        shifted == BitAnd(Shl(x, 1), MASK_RIGHT_28_BIT)
    IN  BitOr(shifted, leading_bit)

RECURSIVE OldRotateTimes(_, _)
OldRotateTimes(x, n) ==
    IF n = 0 THEN x ELSE rotate_left_once(OldRotateTimes(x, n - 1))

\* rotate_left(k, n) of des.rs, lines 125-132.
old_rotate_left(x, n) ==
    IF ~Lt(x, Shl(One64, 28)) THEN Panic("key must fit in 28 bits")
    ELSE Ok(OldRotateTimes(x, n))

\* rotate_key(k, r) of des.rs, lines 105-122: no assertion on r, and the
\* halves are merged by two loops of 28 turns in place.
old_rotate_key(x, r) ==
    LET left == old_rotate_left(Shr(BitAnd(x, MASK_LEFT_28_BIT), 28),
                                Rotations(r))
        right == old_rotate_left(BitAnd(x, MASK_RIGHT_28_BIT), Rotations(r))
    IN  IF ~left.ok THEN left
        ELSE IF ~right.ok THEN right
        ELSE Ok(PushAll(PushAll(Zero64,
                    [i \in 1..28 |-> ShrAnd1(left.val, 27 - (i - 1))] \o <<>>),
                    [i \in 1..28 |-> ShrAnd1(right.val, 27 - (i - 1))]
                        \o <<>>))

RECURSIVE OldKeyRotation(_, _)
\* Lines 79-82 of des.rs: the first n entries of precompressed_keys.
OldKeyRotation(state, n) ==
    IF n = 0 THEN Ok(<<>>)
    ELSE LET prev == OldKeyRotation(state, n - 1)
         IN  IF ~prev.ok THEN prev
             ELSE LET carried == IF n = 1 THEN state ELSE prev.val[n - 1]
                      rotated == old_rotate_key(carried, n - 1)
                  IN  IF ~rotated.ok THEN rotated
                      ELSE Ok(Append(prev.val, rotated.val))

RECURSIVE OldCompress(_, _)
\* Line 84 of des.rs: the first n round keys.
OldCompress(precompressed, n) ==
    IF n = 0 THEN Ok(<<>>)
    ELSE LET prev == OldCompress(precompressed, n - 1)
             key == old_permutate(precompressed[n], PC_2)
         IN  IF ~prev.ok THEN prev
             ELSE IF ~key.ok THEN key
             ELSE Ok(Append(prev.val, key.val))

\* Des::new(k) of des.rs, lines 76-87.
OldDesNew(x) ==
    LET state == old_permutate(x, PC_1)
    IN  IF ~state.ok THEN NoDes(state.msg)
        ELSE LET pre == OldKeyRotation(state.val, 16)
             IN  IF ~pre.ok THEN NoDes(pre.msg)
                 ELSE LET keys == OldCompress(pre.val, 16)
                      IN  IF ~keys.ok THEN NoDes(keys.msg)
                          ELSE [ok |-> TRUE, msg |-> "",
                                key_56_bit |-> state.val,
                                precompressed_keys |-> pre.val,
                                round_keys |-> keys.val]

-----------------------------------------------------------------------------
(* src/stream/arc4.rs                                                      *)

\* u8::wrapping_add
WrappingAdd(a, b) == (a + b) % 256

\* a ^ b on two u8.
ByteXor(a, b) ==
    BitsVal([i \in 1..8 |-> (ByteBits(a, 8)[i] + ByteBits(b, 8)[i]) % 2]
                \o <<>>)

\* Swap that copies s[j] to s[i] and does not put s[i] at j.
SwapOverwriting(s, i, j) == [s EXCEPT ![i + 1] = s[j + 1]]

\* s.swap(i, j), on an array indexed from 0.
Swap(s, i, j) == [s EXCEPT ![i + 1] = s[j + 1], ![j + 1] = s[i + 1]]

\* One turn of the loop of new, lines 22-23, with t[i] = k[i % k.len()] of
\* line 16; st holds j and s.
KsaTurn(st, key, i) ==
    LET j == WrappingAdd(WrappingAdd(st.j, st.s[i + 1]),
                         key[(i % Len(key)) + 1])
    IN  [j |-> j, s |-> Swap(st.s, i, j)]

\* Mix adding the keystream byte instead of xoring it.
MixByAdding(pb, keystream) == WrappingAdd(pb, keystream)

\* The last line of process_byte, line 52: pb ^ k.
Mix(pb, keystream) == ByteXor(pb, keystream)

\* process_byte(&mut self, pb): the AllegedRc4 it leaves and the byte it
\* returns.
process_byte(self, pb) ==
    LET i == WrappingAdd(self.i, 1)
        j == WrappingAdd(self.j, self.s[i + 1])
        s == Swap(self.s, i, j)
        t == WrappingAdd(s[i + 1], s[j + 1])
    IN  [self |-> [i |-> i, j |-> j, s |-> s], out |-> Mix(pb, s[t + 1])]

-----------------------------------------------------------------------------
(* The inputs the calls are made on.                                       *)

\* Keys 0 .. MaxKey, blocks 0 .. MaxBlock and twins 1 .. MaxTwin are drawn;
\* at most MaxCalls encrypt / decrypt calls are made on one Des.
MaxKey == 2
MaxBlock == 1
MaxTwin == 2
MaxCalls == 2

\* A 64-bit pattern for every n, with no structure the tables share.
Scramble(n) ==
    [i \in 1..W |-> ((i * i * (n + 3) + i * (n * n + 1)) \div 7) % 2] \o <<>>

\* Key 0 is u64::MAX - 1234 of test_encrypt_decrypt, key 1 is
\* 0x133457799BBCDFF1.
KeyOf(n) ==
    IF n = 0 THEN FromBytes(<<255, 255, 255, 255, 255, 255, 251, 45>>)
    ELSE IF n = 1 THEN FromBytes(<<19, 52, 87, 121, 155, 188, 223, 241>>)
    ELSE Scramble(n)

\* Block 0 is 123456789101112 of test_encrypt_decrypt, block 1 is
\* 0x0123456789ABCDEF.
BlockOf(n) ==
    IF n = 0 THEN FromBytes(<<0, 0, 112, 72, 134, 15, 58, 56>>)
    ELSE IF n = 1 THEN FromBytes(<<1, 35, 69, 103, 137, 171, 205, 239>>)
    ELSE Scramble(n + 100)

\* The 1-based positions, most significant bit first, of the parity bits of
\* a master key.
ParityPositions == {8, 16, 24, 32, 40, 48, 56, 64}

\* The u64 with parity bit j (j = 1 .. 8, at position 8 * j) set when bit
\* j - 1 of m is set, and no other bit set.
ParityFlip(m) ==
    [i \in 1..W |-> IF i \in ParityPositions
                       /\ (m \div 2 ^ ((i \div 8) - 1)) % 2 = 1
                    THEN 1 ELSE 0] \o <<>>

\* Twin 1 flips all eight parity bits, twin 2 the first.
TwinFlipOf(t) ==
    IF t = 1 THEN 255 ELSE IF t = 2 THEN 1 ELSE ((37 * t) % 255) + 1

-----------------------------------------------------------------------------
(* The Des of cipher.rs in use: built once, then encrypt and decrypt are   *)
(* called on it, each call fed the block the call before returned. A       *)
(* second Des built from a twin key, and the Des of des.rs built from the  *)
(* same key, are built beside it.                                          *)

NoFrame == [op |-> "none", i |-> 0, left |-> <<>>, right |-> <<>>]
NoRc4 == [i |-> 0, j |-> 0, s |-> <<>>]

InitCommon ==
    /\ overflow_checks \in BOOLEAN
    /\ pc = "start"
    /\ call = [fn |-> "none"]
    /\ ret = Ok(<<>>)
    /\ master_key = <<>>
    /\ round_keys = <<>>
    /\ precompressed_keys = <<>>
    /\ twin_key = <<>>
    /\ twin_round_keys = <<>>
    /\ old_round_keys = <<>>
    /\ ops = <<>>
    /\ blocks = <<>>
    /\ frame = NoFrame
    /\ cipher_key = <<>>
    /\ cipher = NoRc4
    /\ decipher_key = <<>>
    /\ decipher = NoRc4
    /\ message = <<>>
    /\ buf = <<>>

Init == InitCommon /\ sbox_set \in {"standard", "affine"}

\* let cipher = Des::new(k)
New ==
    /\ pc = "start"
    /\ \E n \in 0..MaxKey :
          LET des == DesNew(KeyOf(n))
          IN  /\ master_key' = KeyOf(n)
              /\ round_keys' = des.round_keys
              /\ precompressed_keys' = des.precompressed_keys
              /\ ret' = [ok |-> des.ok, val |-> <<>>, msg |-> des.msg]
              /\ pc' = IF des.ok THEN "ready" ELSE "panicked"
    /\ UNCHANGED <<overflow_checks, sbox_set, call, twin_key, twin_round_keys,
                   old_round_keys, ops, blocks, frame, arcVars>>

\* Des::new(twin), the twin differing from k in parity bits only.
NewTwin ==
    /\ pc = "ready" /\ blocks = <<>>
    /\ \E t \in 1..MaxTwin :
          LET twin == BitXor(master_key, ParityFlip(TwinFlipOf(t)))
              des == DesNew(twin)
          IN  /\ twin_key' = twin
              /\ twin_round_keys' = des.round_keys
              /\ ret' = [ok |-> des.ok, val |-> <<>>, msg |-> des.msg]
              /\ pc' = IF des.ok THEN "twin" ELSE "panicked"
    /\ UNCHANGED <<overflow_checks, sbox_set, call, master_key, round_keys,
                   precompressed_keys, old_round_keys, ops, blocks, frame,
                   arcVars>>

\* Des::new(k) of des.rs, on the same key.
OldNew ==
    /\ pc = "ready" /\ blocks = <<>>
    /\ LET des == OldDesNew(master_key)
       IN  /\ old_round_keys' = des.round_keys
           /\ ret' = [ok |-> des.ok, val |-> <<>>, msg |-> des.msg]
           /\ pc' = IF des.ok THEN "old" ELSE "panicked"
    /\ UNCHANGED <<overflow_checks, sbox_set, call, master_key, round_keys,
                   precompressed_keys, twin_key, twin_round_keys, ops, blocks,
                   frame, arcVars>>

\* The blocks a call may be made on: any input block for the first call,
\* the block the last call returned for the others.
CallInputs ==
    IF blocks = <<>> THEN {BlockOf(n) : n \in 0..MaxBlock}
    ELSE {blocks[Len(blocks)]}

\* A call of encrypt or decrypt up to its round loop.
Enter(op) ==
    /\ pc = "ready" /\ Len(ops) < MaxCalls
    /\ \E b \in CallInputs :
          LET h == SplitBlock(b)
          IN  /\ blocks' = IF blocks = <<>> THEN <<b>> ELSE blocks
              /\ frame' = [op |-> op, i |-> 0,
                           left |-> h.left, right |-> h.right]
              /\ ret' = [ok |-> h.ok, val |-> <<>>, msg |-> h.msg]
              /\ pc' = IF h.ok THEN "rounds" ELSE "panicked"
    /\ UNCHANGED <<overflow_checks, sbox_set, call, master_key, round_keys,
                   precompressed_keys, twin_key, twin_round_keys,
                   old_round_keys, ops, arcVars>>

\* One turn of the round loop with round key key.
Turn(op, key) ==
    /\ pc = "rounds" /\ frame.op = op /\ frame.i < 16
    /\ LET h == Twist(frame.left, frame.right, key)
       IN  /\ frame' = [op |-> op, i |-> frame.i + 1,
                        left |-> h.left, right |-> h.right]
           /\ ret' = [ok |-> h.ok, val |-> <<>>, msg |-> h.msg]
           /\ pc' = IF h.ok THEN "rounds" ELSE "panicked"
    /\ UNCHANGED <<overflow_checks, sbox_set, call, master_key, round_keys,
                   precompressed_keys, twin_key, twin_round_keys,
                   old_round_keys, ops, blocks, arcVars>>

\* The rest of a call of encrypt or decrypt, from the end of its loop.
Leave(op) ==
    /\ pc = "rounds" /\ frame.op = op /\ frame.i = 16
    /\ LET out == JoinHalves(Halves(frame.left, frame.right))
       IN  /\ ret' = out
           /\ blocks' = IF out.ok THEN Append(blocks, out.val) ELSE blocks
           /\ ops' = IF out.ok THEN Append(ops, op) ELSE ops
           /\ pc' = IF out.ok THEN "ready" ELSE "panicked"
    /\ frame' = NoFrame
    /\ UNCHANGED <<overflow_checks, sbox_set, call, master_key, round_keys,
                   precompressed_keys, twin_key, twin_round_keys,
                   old_round_keys, arcVars>>

\* cipher.encrypt(block)
EncryptCall == Enter("encrypt")
EncryptRound == Turn("encrypt", EncryptKey(round_keys, frame.i))
EncryptReturn == Leave("encrypt")

\* cipher.decrypt(block)
DecryptCall == Enter("decrypt")
DecryptRound == Turn("decrypt", DecryptKey(round_keys, frame.i))
DecryptReturn == Leave("decrypt")

Next ==
    \/ New
    \/ NewTwin
    \/ OldNew
    \/ EncryptCall
    \/ EncryptRound
    \/ EncryptReturn
    \/ DecryptCall
    \/ DecryptRound
    \/ DecryptReturn

Spec == Init /\ [][Next]_vars

-----------------------------------------------------------------------------
(* Properties of the Des of cipher.rs, checked under Spec.                 *)

\* The n-bit field of a u64: its n low bits, most significant first, so
\* that position 1 is the most significant bit of the field.
Low(x, n) == SubSeq(x, W - n + 1, W)

\* A field rotated left by r positions.
RotL(field, r) ==
    [i \in 1..Len(field) |-> field[((i - 1 + r) % Len(field)) + 1]] \o <<>>

\* The bits of a field that a table of 1-based positions selects, in the
\* order of the table.
Select(field, table) == [i \in 1..Len(table) |-> field[table[i]]] \o <<>>

\* C1: encrypt and decrypt of one Des are mutually inverse: whenever two
\* consecutive calls on the Des are an encrypt and a decrypt, in either
\* order, the second returns the block the first was given. The two sets of
\* substitution boxes give two round functions.
C1_EncryptDecryptInverse ==
    \A n \in 1..(Len(ops) - 1) :
        ops[n] # ops[n + 1] => blocks[n + 2] = blocks[n]

\* decrypt has returned the plaintext that encrypt had turned into another
\* block, under the key and the block of test_encrypt_decrypt.
C1_Witness ==
    /\ pc = "ready"
    /\ ops = <<"encrypt", "decrypt">>
    /\ sbox_set = "standard"
    /\ master_key = KeyOf(0)
    /\ blocks[1] = BlockOf(0)
    /\ blocks[2] # blocks[1]
    /\ blocks[3] = blocks[1]

\* C2: Des::new succeeds on every key: once it has been called no
\* assertion has fired and, in the build that checks arithmetic overflow,
\* no subtraction has underflowed, and the schedule it leaves has exactly 16
\* round keys, each below 2^48. The same of the Des built from the twin key.
C2_NewSucceeds ==
    /\ pc # "start" =>
          /\ Len(round_keys) = 16
          /\ \A i \in 1..16 : \A j \in 1..(W - 48) : round_keys[i][j] = 0
    /\ twin_key # <<>> =>
          /\ Len(twin_round_keys) = 16
          /\ \A i \in 1..16 : \A j \in 1..(W - 48) : twin_round_keys[i][j] = 0
    /\ ~(pc = "panicked" /\ blocks = <<>>)

\* Des::new has returned for u64::MAX - 1234, the key of
\* test_key_scheduling, in the build that checks overflow, with a round key
\* that is not zero.
C2_Witness ==
    /\ pc = "ready"
    /\ overflow_checks
    /\ master_key = KeyOf(0)
    /\ ret.ok
    /\ round_keys[1] # Zero64

\* C5: the parity bits of the master key do not reach the schedule: PC_1
\* names none of the positions 8, 16, .., 64, and the Des built from a key
\* that differs from the master key in those positions only has the same
\* round keys.
C5_ParityIgnored ==
    /\ \A i \in 1..Len(PC_1) : PC_1[i] \notin ParityPositions
    /\ pc = "twin" =>
          /\ \A i \in (1..W) \ ParityPositions : twin_key[i] = master_key[i]
          /\ twin_round_keys = round_keys

\* A Des has been built from a twin that differs from the master key in
\* all eight parity bits.
C5_Witness ==
    /\ pc = "twin"
    /\ \A i \in ParityPositions : twin_key[i] # master_key[i]
    /\ Len(twin_round_keys) = 16
    /\ \E i \in 1..W : master_key[i] # master_key[1]

\* The rotation schedule of the standard: rounds 0, 1, 8 and 15 rotate by
\* one position, the others by two.
ScheduleRotation(i) == IF i \in {0, 1, 8, 15} THEN 1 ELSE 2

\* The 56-bit state of the key schedule before round i: PC-1 of the master
\* key for round 0, the state round i - 1 left for the others.
KeyState(i) ==
    IF i = 0 THEN Select(master_key, PC_1)
    ELSE Low(precompressed_keys[i], 56)

\* The state that round i makes of the state before it: each 28-bit half
\* rotated left on its own.
RotatedState(i) ==
    RotL(SubSeq(KeyState(i), 1, 28), ScheduleRotation(i))
        \o RotL(SubSeq(KeyState(i), 29, 56), ScheduleRotation(i))

\* C7: Des::new follows the key-schedule state machine: the state after
\* round i is the state before it with both halves rotated left by 1 in
\* rounds 0, 1, 8 and 15 and by 2 in the others, starting from PC-1 of the
\* key; round key i is PC-2 of the state after round i, and the 56-bit
\* state, not the round key, is what round i + 1 starts from.
C7_KeyScheduleMachine ==
    pc # "start" /\ Len(round_keys) = 16 =>
        \A i \in 0..15 :
            /\ precompressed_keys[i + 1] = Word(RotatedState(i))
            /\ round_keys[i + 1] = Word(Select(RotatedState(i), PC_2))

\* Des::new has returned with a schedule whose sixteen states are not all
\* the same, and whose round keys differ from round to round.
C7_Witness ==
    /\ pc = "ready"
    /\ Len(precompressed_keys) = 16
    /\ precompressed_keys[1] # precompressed_keys[2]
    /\ precompressed_keys[2] # precompressed_keys[3]
    /\ round_keys[1] # round_keys[2]
    /\ precompressed_keys[1] # round_keys[1]

RECURSIVE PartialSum(_)
\* The rotations of rounds 0 .. i, summed.
PartialSum(i) == IF i < 0 THEN 0 ELSE PartialSum(i - 1) + Rotations(i)

\* The PC-1 output the schedule starts from, each 28-bit half rotated left
\* by r positions.
StartRotated(r) ==
    RotL(SubSeq(KeyState(0), 1, 28), r) \o RotL(SubSeq(KeyState(0), 29, 56), r)

\* C12: the rotations of the 16 rounds sum to 28, the width of a half, and
\* every partial sum before the last is in 1 .. 27; so the 56-bit state
\* after round 15 is the PC-1 output the schedule started from, and the
\* state after each round i < 15 is that output with each half rotated left
\* by the sum of the rotations of rounds 0 .. i.
C12_RotationsSumToHalf ==
    /\ PartialSum(15) = 28
    /\ \A i \in 0..14 : PartialSum(i) \in 1..27
    /\ pc # "start" /\ Len(precompressed_keys) = 16 =>
          /\ precompressed_keys[16] = Word(KeyState(0))
          /\ \A i \in 0..14 :
                precompressed_keys[i + 1] = Word(StartRotated(PartialSum(i)))

\* Des::new has returned, the state after round 15 is the PC-1 output of
\* the key, and the states after rounds 0 and 14 are other values.
C12_Witness ==
    /\ pc = "ready"
    /\ Len(precompressed_keys) = 16
    /\ precompressed_keys[16] = Word(KeyState(0))
    /\ precompressed_keys[1] # precompressed_keys[16]
    /\ precompressed_keys[15] # precompressed_keys[16]

\* C10: the round keys that Des::new of des.rs derives are those that
\* Des::new of cipher.rs derives from the same key: round key i is PC-2 of
\* the state after round i, position 1 being the most significant bit of
\* the 56-bit state.
C10_SameSchedule ==
    pc = "old" =>
        /\ old_round_keys = round_keys
        /\ \A i \in 1..16 :
              old_round_keys[i]
                  = Word(Select(Low(precompressed_keys[i], 56), PC_2))

-----------------------------------------------------------------------------
(* The primitives of cipher.rs called on their own, as its tests call      *)
(* them: one call, on any value, table and width.                          *)

\* Patterns 0 .. MaxPattern are drawn for the values.
MaxPattern == 1

\* The values permutate is called on with width w: values that fit in w
\* bits, among them the largest and, for w > 0, the one with only the top
\* bit of the field set, and values that do not, among them the smallest,
\* 1 << w.
PermValues(w) ==
    {Zero64, LowMask(w), Max64, BitOr(LowMask(w), Shl(One64, W - 1)),
     Shr(Shl(One64, W - 1), W - w)}
        \cup {BitAnd(Scramble(n), LowMask(w)) : n \in 0..MaxPattern}
        \cup (IF w < W THEN {Shl(One64, w)} ELSE {})

\* The tables permutate is called on with width w: the tables of the
\* cipher, and tables whose entries are all in 1 .. w: the empty table, the
\* identity, the reversal, and a table of up to 64 entries that repeats
\* positions.
PermTables(w) ==
    {INITIAL_PERMUTATION, FINAL_PERMUTATION, PC_1, PC_2, E, P, <<>>}
        \cup (IF w = 0 THEN {}
              ELSE {[i \in 1..w |-> i] \o <<>>,
                    [i \in 1..w |-> w + 1 - i] \o <<>>,
                    [i \in 1..W |-> ((5 * i) % w) + 1] \o <<>>})

\* The keys rotate_key is called on: keys of 56 bits and keys with bits set
\* above them.
RotateKeyValues ==
    {Zero64, LowMask(56), Shl(One64, 56), Max64,
     BitOr(Shl(One64, 60), U64(5)),
     FromBytes(<<0, 166, 106, 159, 145, 211, 49, 133>>)}
        \cup {BitAnd(Scramble(n), LowMask(56)) : n \in 0..MaxPattern}
        \cup {Scramble(n) : n \in 0..MaxPattern}

\* The values split and merged with half width h: values of at most 2h
\* bits, among them the largest, the one with only the top bit of the field
\* set and the one with only the lowest bit of the upper half set, and
\* values wider than 2h bits, whose upper half does not fit in h bits;
\* 0xDEADBEEF01234567 of test_merge_halves and the key of test_rotate_key
\* are among them.
MergeValues(h) ==
    LET w == IF 2 * h > W THEN W ELSE 2 * h
    IN  {Zero64, One64, LowMask(w), Max64, Shr(Shl(One64, W - 1), W - w),
         BitAnd(Shl(One64, h), LowMask(w)),
         FromBytes(<<222, 173, 190, 239, 1, 35, 69, 103>>),
         FromBytes(<<0, 166, 106, 159, 145, 211, 49, 133>>)}
            \cup {BitAnd(Scramble(n), LowMask(w)) : n \in 0..MaxPattern}

InitPrim == InitCommon /\ sbox_set = "standard"

\* permutate(k, permutation_vec, k_size)
CallPermutate ==
    /\ pc = "start"
    /\ \E w \in 0..W : \E t \in PermTables(w) : \E v \in PermValues(w) :
          /\ call' = [fn |-> "permutate", k |-> v, permutation_vec |-> t,
                      k_size |-> w]
          /\ ret' = permutate(v, t, w)
    /\ pc' = "returned"
    /\ UNCHANGED <<overflow_checks, sbox_set, desVars, arcVars>>

\* rotate_key(k, r)
CallRotateKey ==
    /\ pc = "start"
    /\ \E v \in RotateKeyValues : \E r \in 0..16 :
          /\ call' = [fn |-> "rotate_key", k |-> v, r |-> r]
          /\ ret' = rotate_key(v, r)
    /\ pc' = "returned"
    /\ UNCHANGED <<overflow_checks, sbox_set, desVars, arcVars>>

\* merge_halves(v >> h, v & ((1 << h) - 1), h): a value split by shift
\* and mask, as lines 41-42 and 125-126 split it, and merged again.
CallMergeHalves ==
    /\ pc = "start"
    /\ \E h \in 0..33 : \E v \in MergeValues(h) :
          LET left == Shr(v, h)
              right == BitAnd(v, LowMask(IF h > W THEN W ELSE h))
          IN  /\ call' = [fn |-> "merge_halves", v |-> v, left |-> left,
                          right |-> right, half_size |-> h]
              /\ ret' = merge_halves(left, right, h)
    /\ pc' = "returned"
    /\ UNCHANGED <<overflow_checks, sbox_set, desVars, arcVars>>

NextPrim ==
    \/ CallPermutate
    \/ CallRotateKey
    \/ CallMergeHalves

SpecPrim == InitPrim /\ [][NextPrim]_vars

\* The call that has returned is permutate.
PermutateReturned == pc = "returned" /\ call.fn = "permutate"

\* v occupies at most w bits: no bit above the w-bit field is set.
Fits(v, w) == \A i \in 1..(W - w) : v[i] = 0

\* C3: permutate fails with "k is bigger than declared k_size" whenever
\* the declared width is below 64 and the value has a bit set beyond it; no
\* value comes back.
C3_TooWideRejected ==
    (PermutateReturned /\ call.k_size < W /\ ~Fits(call.k, call.k_size)) =>
        /\ ~ret.ok
        /\ ret.msg = "k is bigger than declared k_size"
        /\ ret.val = <<>>

\* permutate has refused 1 << 56, the smallest value too wide for PC_2 at
\* width 56, a table that is valid for that width.
C3_Witness ==
    /\ PermutateReturned
    /\ call.k_size = 56
    /\ call.permutation_vec = PC_2
    /\ call.k = Shl(One64, 56)
    /\ ~ret.ok

\* C4: FINAL_PERMUTATION is the inverse of INITIAL_PERMUTATION: entry
\* INITIAL_PERMUTATION[i] of the final table is i, for the 64 positions i
\* (counted from 1 here as in the tables), and so the final permutation of
\* what the initial permutation returned is the value permuted.
C4_FinalInvertsInitial ==
    /\ \A i \in 1..64 : FINAL_PERMUTATION[INITIAL_PERMUTATION[i]] = i
    /\ (PermutateReturned /\ call.k_size = 64
            /\ call.permutation_vec = INITIAL_PERMUTATION) =>
          /\ ret.ok
          /\ permutate(ret.val, FINAL_PERMUTATION, 64) = Ok(call.k)

\* The initial permutation has returned a value that differs from the one
\* it was given.
C4_Witness ==
    /\ PermutateReturned
    /\ call.k_size = 64
    /\ call.permutation_vec = INITIAL_PERMUTATION
    /\ ret.ok
    /\ ret.val # call.k

\* C8: for a width w of at most 64, a value of at most w bits and a table
\* of n <= 64 positions, each in 1 .. w, permutate returns a value of at
\* most n bits whose k-th bit from the top of the n-bit field is the bit of
\* the value at position table[k], position 1 being the most significant
\* bit of the w-bit field.
C8_PermutateSelects ==
    (PermutateReturned /\ Fits(call.k, call.k_size)
        /\ \A i \in 1..Len(call.permutation_vec) :
              call.permutation_vec[i] \in 1..call.k_size) =>
        /\ ret.ok
        /\ Fits(ret.val, Len(call.permutation_vec))
        /\ Low(ret.val, Len(call.permutation_vec))
              = Select(Low(call.k, call.k_size), call.permutation_vec)

\* permutate has applied PC_2 to a value of 56 bits whose top bit is set
\* and whose field is not uniform, and the value returned is not zero.
C8_Witness ==
    /\ PermutateReturned
    /\ call.k_size = 56
    /\ call.permutation_vec = PC_2
    /\ Fits(call.k, 56)
    /\ call.k[W - 56 + 1] = 1
    /\ \E i \in (W - 56 + 1)..W : call.k[i] = 0
    /\ ret.ok
    /\ ret.val # Zero64

\* C9: rotate_key fails on every key that does not fit in 56 bits; it
\* returns nothing computed from such a key.
C9_WideKeyRejected ==
    (pc = "returned" /\ call.fn = "rotate_key" /\ ~Fits(call.k, 56)) =>
        ~ret.ok

\* C11: splitting and merging round-trip: for every half width h in 1..32
\* and every v of at most 2h bits, merge_halves of v >> h and of the h low
\* bits of v, at half width h, returns v; the split of encrypt and decrypt
\* by MASK_LEFT_32_BIT and MASK_RIGHT_32_BIT is that split for h = 32, and
\* the split of rotate_key by MASK_LEFT_28_BIT and MASK_RIGHT_28_BIT is that
\* split for h = 28.
C11_SplitMergeRoundTrip ==
    (pc = "returned" /\ call.fn = "merge_halves" /\ call.half_size \in 1..32
        /\ Fits(call.v, 2 * call.half_size)) =>
        /\ ret = Ok(call.v)
        /\ call.half_size = 32 =>
              /\ call.left = Shr(BitAnd(call.v, MASK_LEFT_32_BIT), 32)
              /\ call.right = BitAnd(call.v, MASK_RIGHT_32_BIT)
        /\ call.half_size = 28 =>
              /\ call.left = Shr(BitAnd(call.v, MASK_LEFT_28_BIT), 28)
              /\ call.right = BitAnd(call.v, MASK_RIGHT_28_BIT)

\* merge_halves has put together the two 28-bit halves, neither zero and
\* not equal, of a 56-bit value whose top bit is set.
C11_Witness ==
    /\ pc = "returned"
    /\ call.fn = "merge_halves"
    /\ call.half_size = 28
    /\ call.v[W - 56 + 1] = 1
    /\ call.left # Zero64
    /\ call.right # Zero64
    /\ call.left # call.right
    /\ ret = Ok(call.v)

-----------------------------------------------------------------------------
(* Two AllegedRc4, as in test_encrypt: each is built from a key, the first *)
(* applies its keystream to a message in buf, the second to what the first *)
(* left in buf.                                                            *)

\* Keys 0 .. MaxArcKey and messages 0 .. MaxMessage are drawn.
MaxArcKey == 3
MaxMessage == 3

\* Key 0 is SEED of the tests, "some not random key for tests"; key 1 has
\* one byte; key 2 is longer than the 256 bytes new reads.
ArcKeyOf(n) ==
    IF n = 0
    THEN <<115, 111, 109, 101, 32, 110, 111, 116, 32, 114, 97, 110, 100, 111,
           109, 32, 107, 101, 121, 32, 102, 111, 114, 32, 116, 101, 115, 116,
           115>>
    ELSE IF n = 1 THEN <<255>>
    ELSE IF n = 2 THEN [i \in 1..300 |-> (7 * i) % 256] \o <<>>
    ELSE [i \in 1..(n + 2) |-> (i * i * n + 11 * i) % 256] \o <<>>

\* Message 0 is "I want to encode this" of test_encrypt; message 1 is empty.
MessageOf(n) ==
    IF n = 0
    THEN <<73, 32, 119, 97, 110, 116, 32, 116, 111, 32, 101, 110, 99, 111,
           100, 101, 32, 116, 104, 105, 115>>
    ELSE IF n = 1 THEN <<>>
    ELSE [i \in 1..(n + 1) |-> (i * i * 53 + n * 29) % 256] \o <<>>

\* The keys new is called on: the empty key too.
ArcKeys == {ArcKeyOf(n) : n \in 0..MaxArcKey} \cup {<<>>}

InitArc4 == InitCommon /\ sbox_set = "standard"

\* The array s of line 18: s[i] = i.
IdentityS == [i \in 1..256 |-> i - 1] \o <<>>

\* AllegedRc4::new(key) up to its loop, lines 13-20, for the AllegedRc4
\* named who; the empty key fails the assertion.
EnterNew(who, from, to) ==
    /\ pc = from
    /\ \E key \in ArcKeys :
          /\ IF who = "cipher"
             THEN cipher_key' = key /\ UNCHANGED decipher_key
             ELSE decipher_key' = key /\ UNCHANGED cipher_key
          /\ frame' = [op |-> "new", who |-> who, key |-> key, i |-> 0,
                       j |-> 0, s |-> IdentityS]
          /\ ret' = IF key = <<>> THEN Panic("ARC4 key cannot be empty")
                    ELSE Ok(<<>>)
          /\ pc' = IF key = <<>> THEN "panicked" ELSE to
    /\ UNCHANGED <<overflow_checks, sbox_set, call, master_key, round_keys,
                   precompressed_keys, twin_key, twin_round_keys,
                   old_round_keys, ops, blocks, cipher, decipher, message,
                   buf>>

\* One turn of the loop of new, lines 21-24.
KsaStep ==
    /\ pc \in {"cipher_ksa", "decipher_ksa"} /\ frame.i < 256
    /\ LET st == KsaTurn(frame, frame.key, frame.i)
       IN  frame' = [frame EXCEPT !.i = frame.i + 1, !.j = st.j, !.s = st.s]
    /\ UNCHANGED <<overflow_checks, sbox_set, pc, call, ret, master_key,
                   round_keys, precompressed_keys, twin_key, twin_round_keys,
                   old_round_keys, ops, blocks, arcVars>>

\* The end of new, line 27: Self { i: 0, j: 0, s }.
LeaveNew(who, from, to) ==
    /\ pc = from /\ frame.i = 256
    /\ IF who = "cipher"
       THEN cipher' = [i |-> 0, j |-> 0, s |-> frame.s] /\ UNCHANGED decipher
       ELSE decipher' = [i |-> 0, j |-> 0, s |-> frame.s] /\ UNCHANGED cipher
    /\ frame' = NoFrame
    /\ pc' = to
    /\ UNCHANGED <<overflow_checks, sbox_set, call, ret, master_key,
                   round_keys, precompressed_keys, twin_key, twin_round_keys,
                   old_round_keys, ops, blocks, cipher_key, decipher_key,
                   message, buf>>

\* let mut cipher = AllegedRc4::new(key)
NewCipher == EnterNew("cipher", "start", "cipher_ksa")
NewCipherReturn == LeaveNew("cipher", "cipher_ksa", "cipher")

\* let mut decipher = AllegedRc4::new(key)
NewDecipher == EnterNew("decipher", "cipher", "decipher_ksa")
NewDecipherReturn == LeaveNew("decipher", "decipher_ksa", "both")

\* let mut ciphertext = message.to_vec();
\* cipher.apply_keystream(&mut ciphertext), up to its loop.
Encode ==
    /\ pc = "both"
    /\ \E n \in 0..MaxMessage :
          /\ message' = MessageOf(n)
          /\ buf' = MessageOf(n)
    /\ frame' = [op |-> "apply_keystream", who |-> "cipher", n |-> 0]
    /\ pc' = "encoding"
    /\ UNCHANGED <<overflow_checks, sbox_set, call, ret, master_key,
                   round_keys, precompressed_keys, twin_key, twin_round_keys,
                   old_round_keys, ops, blocks, cipher_key, cipher,
                   decipher_key, decipher>>

\* decipher.apply_keystream(&mut ciphertext), up to its loop.
Decode ==
    /\ pc = "encoded"
    /\ frame' = [op |-> "apply_keystream", who |-> "decipher", n |-> 0]
    /\ pc' = "decoding"
    /\ UNCHANGED <<overflow_checks, sbox_set, call, ret, master_key,
                   round_keys, precompressed_keys, twin_key, twin_round_keys,
                   old_round_keys, ops, blocks, arcVars>>

\* One turn of the loop of apply_keystream, lines 33-35:
\* *b = self.process_byte(*b).
ApplyStep ==
    /\ pc \in {"encoding", "decoding"} /\ frame.n < Len(buf)
    /\ LET self == IF frame.who = "cipher" THEN cipher ELSE decipher
           done == process_byte(self, buf[frame.n + 1])
       IN  /\ buf' = [buf EXCEPT ![frame.n + 1] = done.out]
           /\ IF frame.who = "cipher"
              THEN cipher' = done.self /\ UNCHANGED decipher
              ELSE decipher' = done.self /\ UNCHANGED cipher
    /\ frame' = [frame EXCEPT !.n = frame.n + 1]
    /\ UNCHANGED <<overflow_checks, sbox_set, pc, call, ret, master_key,
                   round_keys, precompressed_keys, twin_key, twin_round_keys,
                   old_round_keys, ops, blocks, cipher_key, decipher_key,
                   message>>

\* The end of apply_keystream.
ApplyReturn ==
    /\ pc \in {"encoding", "decoding"} /\ frame.n = Len(buf)
    /\ pc' = IF pc = "encoding" THEN "encoded" ELSE "decoded"
    /\ frame' = NoFrame
    /\ UNCHANGED <<overflow_checks, sbox_set, call, ret, master_key,
                   round_keys, precompressed_keys, twin_key, twin_round_keys,
                   old_round_keys, ops, blocks, arcVars>>

NextArc4 ==
    \/ NewCipher
    \/ NewCipherReturn
    \/ NewDecipher
    \/ NewDecipherReturn
    \/ KsaStep
    \/ Encode
    \/ Decode
    \/ ApplyStep
    \/ ApplyReturn

SpecArc4 == InitArc4 /\ [][NextArc4]_vars

\* C6: applying the keystream of a fresh AllegedRc4 to a buffer, and then
\* the keystream of a second fresh AllegedRc4 built from the same key to
\* what the first left, gives back the buffer byte for byte.
C6_KeystreamSelfInverse ==
    (pc = "decoded" /\ decipher_key = cipher_key) => buf = message

\* The message of test_encrypt has been encoded and decoded under SEED, and
\* the two AllegedRc4 have each produced 21 bytes of keystream.
C6_Witness ==
    /\ pc = "decoded"
    /\ cipher_key = ArcKeyOf(0)
    /\ decipher_key = cipher_key
    /\ message = MessageOf(0)
    /\ buf = message
    /\ cipher.i = 21
    /\ decipher = cipher

\* s holds each of the 256 byte values once.
IsPermutation(s) ==
    /\ Len(s) = 256
    /\ {s[n] : n \in 1..256} = 0..255

\* C13: the array s of an AllegedRc4 is a permutation of 0 .. 255 in every
\* reachable state: in every turn of the loop of new, in the AllegedRc4
\* that new returns for a non-empty key, and after every process_byte that
\* apply_keystream makes.
C13_StateIsPermutation ==
    /\ pc \in {"cipher_ksa", "decipher_ksa"} => IsPermutation(frame.s)
    /\ cipher # NoRc4 => IsPermutation(cipher.s)
    /\ decipher # NoRc4 => IsPermutation(decipher.s)

\* Both AllegedRc4 have been built from SEED and have processed the 21
\* bytes of the message of test_encrypt; s is no longer the array new
\* started from.
C13_Witness ==
    /\ pc = "decoded"
    /\ cipher_key = ArcKeyOf(0)
    /\ cipher.i = 21
    /\ decipher.i = 21
    /\ cipher.s # IdentityS
    /\ IsPermutation(cipher.s)
    /\ IsPermutation(decipher.s)

=============================================================================
